---------------------------- MODULE Spec2Model ----------------------------
(***************************************************************************)
(* State-machine model of the WAF control API (src/src/routes/api.ts):     *)
(* the seven route handlers, the KV record "waf-settings" and the upstream *)
(* custom-firewall rulesets the handlers read and update.  A handler is    *)
(* cut at its awaits on shared state (KV get/put, upstream calls): each    *)
(* action runs one such call and the synchronous code that follows it.     *)
(***************************************************************************)
EXTENDS Naturals, Sequences, FiniteSets

(***************************************************************************)
(* JavaScript values.  A string is a sequence of tokens; undefined and     *)
(* null are values of their own, so that `!x`, `x || ""`, `===` and the    *)
(* omission of undefined members by JSON.stringify can be computed.        *)
(***************************************************************************)
Undefined == [t |-> "undefined", s |-> <<>>]

Null == [t |-> "null", s |-> <<>>]

Str(toks) == [t |-> "string", s |-> toks]

Tok(a) == Str(<<a>>)

Empty == Str(<<>>)

\* The JSON literal true: a body is any JSON the caller sends, `body as Settings`
\* checks nothing at run time.
JsTrue == [t |-> "boolean", s |-> <<"true">>]

\* JavaScript truthiness of a value: `x` in `if (x)`.
Truthy(v) == (v.t = "string" /\ v.s # <<>>) \/ v = JsTrue

\* `x || ""`
OrEmpty(v) == IF Truthy(v) THEN v ELSE Empty

(***************************************************************************)
(* The identifiers the requests and the upstream account draw from.        *)
(***************************************************************************)
K1 == Tok("k1")

Z1 == Tok("z1")

Z2 == Tok("z2")

RS1 == Tok("rs1")

RS2 == Tok("rs2")

RX == Tok("rx")

S1 == Tok("s1")

S2 == Tok("s2")

\* The number of rules of zone z1's custom-firewall ruleset.
NumRules == 2

RuleNames == <<"r1", "r2", "r3", "r4">>

RuleName(i) == Tok(RuleNames[i])

R1 == RuleName(1)

(***************************************************************************)
(* JSON text.  An object is a sequence of members [k, v]; its text is a    *)
(* sequence of tokens.  JSON.stringify leaves out a member whose value is  *)
(* undefined and escapes quotes and backslashes; JSON.parse rebuilds the   *)
(* members from the text and fails on text that is not JSON.               *)
(***************************************************************************)
RECURSIVE Escape(_)
Escape(toks) ==
  IF toks = <<>> THEN <<>>
  ELSE (IF Head(toks) \in {"\"", "\\"} THEN <<"\\", Head(toks)>> ELSE <<Head(toks)>>)
       \o Escape(Tail(toks))

Quote(toks) == <<"\"">> \o Escape(toks) \o <<"\"">>

ValueText(v) ==
  IF v.t = "null" THEN <<"null">>
  ELSE IF v.t = "boolean" THEN v.s
  ELSE Quote(v.s)

RECURSIVE MembersText(_, _)
MembersText(obj, first) ==
  IF obj = <<>> THEN <<>>
  ELSE IF Head(obj).v.t = "undefined" THEN MembersText(Tail(obj), first)
  ELSE (IF first THEN <<>> ELSE <<",">>)
       \o Quote(<<Head(obj).k>>) \o <<":">> \o ValueText(Head(obj).v)
       \o MembersText(Tail(obj), FALSE)

JSONStringify(obj) == Str(<<"{">> \o MembersText(obj, TRUE) \o <<"}">>)

ParseFail == [ok |-> FALSE, val |-> Undefined, next |-> 0]

\* The characters of a string literal from position i on, up to its closing quote.
RECURSIVE ScanString(_, _, _)
ScanString(toks, i, acc) ==
  IF i > Len(toks) THEN ParseFail
  ELSE IF toks[i] = "\"" THEN [ok |-> TRUE, val |-> Str(acc), next |-> i + 1]
  ELSE IF toks[i] = "\\"
    THEN IF i + 1 > Len(toks) THEN ParseFail
         ELSE ScanString(toks, i + 2, Append(acc, toks[i + 1]))
  ELSE ScanString(toks, i + 1, Append(acc, toks[i]))

ParseValue(toks, i) ==
  IF i > Len(toks) THEN ParseFail
  ELSE IF toks[i] = "null" THEN [ok |-> TRUE, val |-> Null, next |-> i + 1]
  ELSE IF toks[i] = "true" THEN [ok |-> TRUE, val |-> JsTrue, next |-> i + 1]
  ELSE IF toks[i] = "\"" THEN ScanString(toks, i + 1, <<>>)
  ELSE ParseFail

NoObject == [ok |-> FALSE, obj |-> <<>>]

\* The members of an object from position i on, up to its closing brace.
RECURSIVE ParseMembers(_, _, _)
ParseMembers(toks, i, acc) ==
  LET key == ParseValue(toks, i) IN
  IF ~key.ok \/ key.val.t # "string" \/ Len(key.val.s) # 1 THEN NoObject
  ELSE IF key.next > Len(toks) \/ toks[key.next] # ":" THEN NoObject
  ELSE LET val == ParseValue(toks, key.next + 1)
           got == Append(acc, [k |-> key.val.s[1], v |-> val.val])
       IN  IF ~val.ok \/ val.next > Len(toks) THEN NoObject
           ELSE IF toks[val.next] = "}"
             THEN IF val.next = Len(toks) THEN [ok |-> TRUE, obj |-> got] ELSE NoObject
           ELSE IF toks[val.next] = "," THEN ParseMembers(toks, val.next + 1, got)
           ELSE NoObject

\* JSON.parse of a stored string; ok = FALSE stands for the SyntaxError it throws.
JSONParse(str) ==
  LET toks == str.s IN
  IF Len(toks) < 2 \/ toks[1] # "{" THEN NoObject
  ELSE IF toks[2] = "}" THEN (IF Len(toks) = 2 THEN [ok |-> TRUE, obj |-> <<>>] ELSE NoObject)
  ELSE ParseMembers(toks, 2, <<>>)

\* obj.key: the value of the last member named key, undefined when there is none.
RECURSIVE Get(_, _)
Get(obj, key) ==
  IF obj = <<>> THEN Undefined
  ELSE IF obj[Len(obj)].k = key THEN obj[Len(obj)].v
  ELSE Get(SubSeq(obj, 1, Len(obj) - 1), key)

(***************************************************************************)
(* State.                                                                  *)
(*   kv        the value stored under "waf-settings": Null until the first *)
(*             put, then the JSON text put last                            *)
(*   upstream  per zone, the custom-firewall phase ruleset the upstream    *)
(*             API holds: [id, hasRules, rules]                            *)
(*   req       per request slot, the request being handled: its route and  *)
(*             inputs, the handler's position and locals, and its response *)
(*   lastSave  the body of the request whose put was the last to succeed   *)
(*             (history, read by no handler)                               *)
(***************************************************************************)
VARIABLES kv, upstream, req, lastSave

vars == <<kv, upstream, req, lastSave>>

Procs == {"p1", "p2"}

\* The slots that take requests one after the other.
Serial == {"p1"}

ZoneIds == {Z1, Z2}

Actions == {"block", "log"}

Rule(i, enabled, action) == [id |-> RuleName(i), enabled |-> enabled, action |-> action]

NoRule == [id |-> Undefined, enabled |-> FALSE, action |-> "block"]

(***************************************************************************)
(* Requests.                                                               *)
(***************************************************************************)
Routes == {"GET /api/zones", "GET /api/waf/rules", "POST /api/waf/rules/enable",
           "GET /api/settings", "POST /api/settings", "GET /api/webhook",
           "POST /api/webhook"}

\* A request body that is absent or is not JSON: c.req.json() throws.
NoBody == [ok |-> FALSE, apiKey |-> Undefined, zoneId |-> Undefined,
           rulesetId |-> Undefined, ruleId |-> Undefined, secret |-> Undefined,
           enabled |-> FALSE]

EnableBodies ==
  [ok : {TRUE}, apiKey : {Undefined}, zoneId : {Undefined, Z1, Z2},
   rulesetId : {Undefined, RS1}, ruleId : {Undefined, R1, RX},
   secret : {Undefined}, enabled : BOOLEAN]

SettingsBodies ==
  [ok : {TRUE}, apiKey : {Undefined, K1}, zoneId : {Undefined, Z1},
   rulesetId : {Undefined, Empty, RS1, JsTrue}, ruleId : {Undefined, R1, RX},
   secret : {Undefined, S1}, enabled : {FALSE}]

\* The body a caller of the webhook may send along: the webhook handler reads none.
WebhookBodies ==
  {NoBody, [NoBody EXCEPT !.ok = TRUE, !.zoneId = Z1, !.rulesetId = RS1, !.ruleId = R1]}

NoResp == [status |-> 0, envelope |-> FALSE, success |-> FALSE, error |-> "",
           message |-> <<>>, result |-> [kind |-> "none"]]

NoCalls == [zonesList |-> 0, zoneGet |-> 0, phasesGet |-> 0, update |-> 0,
            kvGet |-> 0, kvPut |-> 0]

NoPhase == [id |-> Undefined, hasRules |-> FALSE, rules |-> <<>>]

Idle == [route |-> "none", pc |-> "idle", apiKeyHdr |-> Undefined,
         secretHdr |-> Undefined, zoneQ |-> Undefined, body |-> NoBody,
         settingsStr |-> Null, settings |-> <<>>, phase |-> NoPhase,
         rule |-> NoRule, sent |-> <<>>, replaced |-> NoRule, prevKv |-> Null,
         resp |-> NoResp, calls |-> NoCalls, threw |-> {}, caught |-> ""]

\* The requests a caller can make on each route.
Inputs(route) ==
  CASE route = "GET /api/zones" ->
         {[Idle EXCEPT !.route = route, !.apiKeyHdr = k] : k \in {Undefined, K1}}
    [] route = "GET /api/waf/rules" ->
         {[Idle EXCEPT !.route = route, !.apiKeyHdr = k, !.zoneQ = z] :
            k \in {Undefined, K1}, z \in {Undefined, Z1, Z2}}
    [] route = "POST /api/waf/rules/enable" ->
         {[Idle EXCEPT !.route = route, !.apiKeyHdr = k, !.body = b] :
            k \in {Undefined, K1}, b \in EnableBodies \cup {NoBody}}
    [] route = "GET /api/settings" -> {[Idle EXCEPT !.route = route]}
    [] route = "POST /api/settings" ->
         {[Idle EXCEPT !.route = route, !.body = b] : b \in SettingsBodies \cup {NoBody}}
    [] route = "GET /api/webhook" -> {[Idle EXCEPT !.route = route]}
    [] route = "POST /api/webhook" ->
         {[Idle EXCEPT !.route = route, !.secretHdr = h, !.apiKeyHdr = k, !.body = b] :
            h \in {Undefined, S1, S2}, k \in {Undefined, K1}, b \in WebhookBodies}

(***************************************************************************)
(* Responses.                                                              *)
(***************************************************************************)
Fail(status, error) ==
  [status |-> status, envelope |-> TRUE, success |-> FALSE, error |-> error,
   message |-> <<>>, result |-> [kind |-> "none"]]

Ok(result, message) ==
  [status |-> 200, envelope |-> TRUE, success |-> TRUE, error |-> "",
   message |-> message, result |-> result]

\* What the framework answers when a handler throws outside its own try block.
UncaughtError ==
  [status |-> 500, envelope |-> FALSE, success |-> FALSE, error |-> "",
   message |-> <<"Internal Server Error">>, result |-> [kind |-> "none"]]

Probe ==
  [status |-> 200, envelope |-> FALSE, success |-> FALSE, error |-> "",
   message |-> <<"Webhook">>, result |-> [kind |-> "none"]]

\* The handler returns: its response is set and the error it caught, if any, is
\* out of scope.
Respond(r, resp) == [r EXCEPT !.pc = "done", !.resp = resp, !.caught = ""]

Await(r, pc) == [r EXCEPT !.pc = pc]

\* What an error thrown by a call may carry: the `error` a catch block receives.
ErrorDetails == {"connect ETIMEDOUT", "403 Forbidden"}

\* The request has made a call, which returned or threw an error with that detail.
Called(r, call, failed, detail) ==
  [r EXCEPT !.calls[call] = @ + 1,
            !.threw = IF failed THEN @ \cup {call} ELSE @,
            !.caught = IF failed THEN detail ELSE @]

\* The enable handler registered on POST /api/webhook as well.
Handler_EnableOnWebhook(route) ==
  IF route = "POST /api/webhook" THEN "POST /api/waf/rules/enable" ELSE route

\* The handler registered on each route.
Handler(route) == route

(***************************************************************************)
(* The synchronous head of each handler, up to its first call.             *)
(***************************************************************************)
BeginZones(r) ==
  IF ~Truthy(r.apiKeyHdr) THEN Respond(r, [Fail(401, "API key is required")
                                            EXCEPT !.result = [kind |-> "null"]])
  ELSE Await(r, "zonesList")

BeginRules(r) ==
  IF ~Truthy(r.apiKeyHdr) \/ ~Truthy(r.zoneQ)
    THEN Respond(r, Fail(401, "API key and Zone ID are required"))
  ELSE Await(r, "phasesGet")

\* The enable handler without `!apiKey` in its check of the parameters.
BeginEnable_KeyUnchecked(r) ==
  IF ~r.body.ok THEN Respond(r, UncaughtError)
  ELSE IF ~Truthy(r.body.zoneId) \/ ~Truthy(r.body.ruleId) \/ ~Truthy(r.body.rulesetId)
    THEN Respond(r, Fail(400, "Missing required parameters"))
  ELSE Await(r, "phasesGet")

BeginEnable(r) ==
  IF ~r.body.ok THEN Respond(r, UncaughtError)
  ELSE IF ~Truthy(r.apiKeyHdr) \/ ~Truthy(r.body.zoneId) \/ ~Truthy(r.body.ruleId)
          \/ ~Truthy(r.body.rulesetId)
    THEN Respond(r, Fail(400, "Missing required parameters"))
  ELSE Await(r, "phasesGet")

BeginSave(r) ==
  IF ~r.body.ok THEN Respond(r, Fail(500, "Failed to save settings"))
  ELSE IF ~Truthy(r.body.apiKey) \/ ~Truthy(r.body.zoneId)
    THEN Respond(r, Fail(400, "Missing required parameters"))
  ELSE Await(r, "zoneGet")

BeginWebhook(r) ==
  IF ~Truthy(r.secretHdr) THEN Respond(r, Fail(401, "Access denied"))
  ELSE Await(r, "kvGet")

Begin(r) ==
  CASE Handler(r.route) = "GET /api/zones" -> BeginZones(r)
    [] Handler(r.route) = "GET /api/waf/rules" -> BeginRules(r)
    [] Handler(r.route) = "POST /api/waf/rules/enable" -> BeginEnable(r)
    [] Handler(r.route) = "GET /api/settings" -> Await(r, "kvGet")
    [] Handler(r.route) = "POST /api/settings" -> BeginSave(r)
    [] Handler(r.route) = "GET /api/webhook" -> Respond(r, Probe)
    [] Handler(r.route) = "POST /api/webhook" -> BeginWebhook(r)

(***************************************************************************)
(* The ruleset fetch (cf.rulesets.phases.get) and what follows it.         *)
(***************************************************************************)
\* The no-rules check without the test of the length.
NoRules_Unmeasured(phase) == ~phase.hasRules

\* `!phaseResponse.rules || !phaseResponse.rules.length`
NoRules(phase) == ~phase.hasRules \/ Len(phase.rules) = 0

\* A lookup that settles for the first rule when none has the id asked for.
Find_Nearest(rules, ruleId) ==
  IF rules = <<>> THEN NoRule
  ELSE IF \E i \in 1..Len(rules) : rules[i].id = ruleId
    THEN rules[CHOOSE i \in 1..Len(rules) : rules[i].id = ruleId]
  ELSE Head(rules)

\* `rules.find((rule) => rule.id === ruleId)`: the first such rule, else undefined.
RECURSIVE Find(_, _)
Find(rules, ruleId) ==
  IF rules = <<>> THEN NoRule
  ELSE IF Head(rules).id = ruleId THEN Head(rules)
  ELSE Find(Tail(rules), ruleId)

\* The rule check accepting any rule id once the ruleset has rules.
SomeRule_AnyRule(phase, ruleId) == phase.hasRules /\ Len(phase.rules) > 0

\* `phaseResponse.rules?.some((rule) => rule.id === ruleId)`
SomeRule(phase, ruleId) ==
  phase.hasRules /\ \E i \in 1..Len(phase.rules) : phase.rules[i].id = ruleId

\* The zone, ruleset and rule a handler works on, and the flag it asks for.
ZoneOf(r) ==
  CASE Handler(r.route) = "GET /api/waf/rules" -> r.zoneQ
    [] Handler(r.route) = "POST /api/webhook" -> Get(r.settings, "zoneId")
    [] OTHER -> r.body.zoneId

RulesetIdOf(r) ==
  IF Handler(r.route) = "POST /api/webhook" THEN Get(r.settings, "rulesetId")
  ELSE r.body.rulesetId

RuleIdOf(r) ==
  IF Handler(r.route) = "POST /api/webhook" THEN Get(r.settings, "ruleId")
  ELSE r.body.ruleId

\* The flag flipped from the one read, `rule.enabled = !rule.enabled`.
EnabledOf_Flipped(r) == ~Find(r.phase.rules, RuleIdOf(r)).enabled

EnabledOf(r) ==
  IF Handler(r.route) = "POST /api/webhook" THEN TRUE ELSE r.body.enabled

\* The error each handler's catch block answers a thrown upstream call with.
\* A catch block that passes on what the error it caught says.
CatchUpstream_Detail(r) == Fail(500, r.caught)

CatchUpstream(r) ==
  CASE Handler(r.route) = "GET /api/zones" ->
         [Fail(400, "Failed to fetch zones") EXCEPT !.result = [kind |-> "null"]]
    [] Handler(r.route) = "GET /api/waf/rules" ->
         [Fail(500, "Failed to fetch WAF rules") EXCEPT !.result = [kind |-> "null"]]
    [] Handler(r.route) = "POST /api/waf/rules/enable" ->
         Fail(500, "Failed to update WAF rules")
    [] Handler(r.route) = "POST /api/settings" -> Fail(400, "Invalid API key or zone ID")
    [] OTHER -> Fail(500, "Failed to process webhook request")

\* Enable/disable and webhook: find the rule, set its flag, go on to the update.
SelectRule(r, phase) ==
  IF NoRules(phase) THEN Respond(r, Fail(404, "No WAF rules found"))
  ELSE LET rule == Find(phase.rules, RuleIdOf(r)) IN
       IF rule = NoRule THEN Respond(r, Fail(404, "Rule not found"))
       ELSE Await([r EXCEPT !.rule = [rule EXCEPT !.enabled = EnabledOf(r)]], "update")

AfterPhasesGet(r, failed, phase) ==
  IF failed THEN Respond(r, CatchUpstream(r))
  ELSE LET q == [r EXCEPT !.phase = phase] IN
    CASE Handler(r.route) = "GET /api/waf/rules" ->
           IF NoRules(phase)
             THEN Respond(q, [Fail(404, "No WAF rules found") EXCEPT !.result = [kind |-> "null"]])
           ELSE Respond(q, Ok([kind |-> "rules", rulesetId |-> phase.id,
                                rules |-> phase.rules], <<>>))
      [] Handler(r.route) = "POST /api/settings" ->
           IF ~SomeRule(phase, r.body.ruleId) THEN Respond(q, Fail(400, "Invalid rule ID"))
           ELSE Await(q, "kvPut")
      [] OTHER -> SelectRule(q, phase)

(***************************************************************************)
(* The ruleset update (cf.rulesets.update) and the upstream's side of it.  *)
(***************************************************************************)
\* The whole collection read, with the rule changed in it, as the update.
UpdatePayload_WholeRuleset(r) ==
  [i \in 1..Len(r.phase.rules) |->
     IF r.phase.rules[i].id = r.rule.id THEN r.rule ELSE r.phase.rules[i]]

\* A payload built from the rule as the upstream holds it when the update is made.
UpdatePayload_Refetched(r) ==
  IF ZoneOf(r) \notin ZoneIds THEN <<r.rule>>
  ELSE LET now == Find(upstream[ZoneOf(r)].rules, RuleIdOf(r)) IN
       IF now = NoRule THEN <<r.rule>> ELSE <<[now EXCEPT !.enabled = r.rule.enabled]>>

\* `rules: [rule]`: the rules the handler submits.
UpdatePayload(r) == <<r.rule>>

SuccessMessage(r) ==
  <<"Successfully", IF EnabledOf(r) THEN "enabled" ELSE "disabled", "WAF", "rule">>
  \o RuleIdOf(r).s

\* The upstream takes an update of its own ruleset whose rules it all holds.
Accepts(phase, rulesetId, payload) ==
  /\ phase.id = rulesetId
  /\ \A j \in 1..Len(payload) : \E i \in 1..Len(phase.rules) : phase.rules[i].id = payload[j].id

\* Partial update: a submitted rule replaces the rule of its id, the others stay.
PartialUpdate(rules, payload) ==
  [i \in 1..Len(rules) |->
     IF \E j \in 1..Len(payload) : payload[j].id = rules[i].id
       THEN payload[CHOOSE j \in 1..Len(payload) : payload[j].id = rules[i].id]
     ELSE rules[i]]

\* An update tried a second time when it fails.
AfterUpdate_RetryOnce(r, failed, updated) ==
  IF failed /\ r.calls.update < 2 THEN Await(r, "update")
  ELSE IF failed THEN Respond(r, CatchUpstream(r))
  ELSE Respond(r, Ok([kind |-> "ruleset", rules |-> updated], SuccessMessage(r)))

AfterUpdate(r, failed, updated) ==
  IF failed THEN Respond(r, CatchUpstream(r))
  ELSE Respond(r, Ok([kind |-> "ruleset", rules |-> updated], SuccessMessage(r)))

(***************************************************************************)
(* The settings record: KV get and put and what follows them.              *)
(***************************************************************************)
\* The settings object without `|| ""` on rulesetId and ruleId.
SettingsObject_Raw(body) ==
  << [k |-> "apiKey", v |-> body.apiKey], [k |-> "zoneId", v |-> body.zoneId],
     [k |-> "secret", v |-> body.secret],
     [k |-> "rulesetId", v |-> body.rulesetId], [k |-> "ruleId", v |-> body.ruleId] >>

\* The object literal both the put and the response of POST /api/settings build.
SettingsObject(body) ==
  << [k |-> "apiKey", v |-> body.apiKey], [k |-> "zoneId", v |-> body.zoneId],
     [k |-> "secret", v |-> body.secret],
     [k |-> "rulesetId", v |-> OrEmpty(body.rulesetId)],
     [k |-> "ruleId", v |-> OrEmpty(body.ruleId)] >>

\* A put that keeps the secret stored before when the request brings none.
StoredText_Merged(old, body) ==
  LET before == JSONParse(old) IN
  JSONStringify(SettingsObject(
    IF body.secret = Undefined /\ old # Null /\ before.ok
      THEN [body EXCEPT !.secret = Get(before.obj, "secret")]
    ELSE body))

\* A put that writes only the rule ids the request brings and keeps the stored ones.
StoredText_FieldWise(old, body) ==
  LET before == JSONParse(old)
      kept(key, v) == IF ~Truthy(v) /\ old # Null /\ before.ok
                        THEN Get(before.obj, key) ELSE v
  IN  JSONStringify(SettingsObject(
        [body EXCEPT !.rulesetId = kept("rulesetId", @), !.ruleId = kept("ruleId", @)]))

\* `SETTINGS.put("waf-settings", JSON.stringify({...}))`: the value the key holds
\* after the put, given the value it held before.
StoredText(old, body) == JSONStringify(SettingsObject(body))

\* The webhook without its credential check.
SecretDenied_Unchecked(settingsStr, secret, secretHeader) == FALSE

\* The webhook's credential check, `settingsStr !== secret`.
SecretDenied(settingsStr, secret, secretHeader) == settingsStr # secret

\* GET /api/settings answering a missing record as not found.
AfterGetSettings_AbsentIsError(r, failed, stored) ==
  IF failed THEN Respond(r, Fail(500, "Failed to fetch settings"))
  ELSE IF ~Truthy(stored) THEN Respond(r, Fail(404, "No settings found"))
  ELSE LET parsed == JSONParse(stored) IN
       IF ~parsed.ok THEN Respond(r, Fail(500, "Failed to fetch settings"))
       ELSE Respond(r, Ok([kind |-> "settings", obj |-> parsed.obj], <<>>))

AfterGetSettings(r, failed, stored) ==
  IF failed THEN Respond(r, Fail(500, "Failed to fetch settings"))
  ELSE IF ~Truthy(stored) THEN Respond(r, Ok([kind |-> "null"], <<>>))
  ELSE LET parsed == JSONParse(stored) IN
       IF ~parsed.ok THEN Respond(r, Fail(500, "Failed to fetch settings"))
       ELSE Respond(r, Ok([kind |-> "settings", obj |-> parsed.obj], <<>>))

AfterWebhookGet(r, failed, stored) ==
  IF failed THEN Respond(r, Fail(500, "Failed to process webhook request"))
  ELSE IF ~Truthy(stored) THEN Respond(r, Fail(404, "No settings found"))
  ELSE LET parsed == JSONParse(stored)
           q == [r EXCEPT !.settingsStr = stored, !.settings = parsed.obj]
       IN  IF ~parsed.ok THEN Respond(r, Fail(500, "Failed to process webhook request"))
           ELSE IF SecretDenied(stored, Get(parsed.obj, "secret"), r.secretHdr)
             THEN Respond(q, Fail(401, "Access denied"))
           ELSE IF ~Truthy(Get(parsed.obj, "apiKey")) \/ ~Truthy(Get(parsed.obj, "zoneId"))
                   \/ ~Truthy(Get(parsed.obj, "rulesetId"))
                   \/ ~Truthy(Get(parsed.obj, "ruleId"))
             THEN Respond(q, Fail(400, "Incomplete settings found"))
           ELSE Await(q, "phasesGet")

AfterKvGet(r, failed, stored) ==
  IF Handler(r.route) = "GET /api/settings" THEN AfterGetSettings(r, failed, stored)
  ELSE AfterWebhookGet(r, failed, stored)

\* The rule validated as soon as either of ruleId and rulesetId is given.
AfterZoneGet_ValidatesEither(r, failed) ==
  IF failed THEN Respond(r, CatchUpstream(r))
  ELSE IF Truthy(r.body.ruleId) \/ Truthy(r.body.rulesetId) THEN Await(r, "phasesGet")
  ELSE Await(r, "kvPut")

AfterZoneGet(r, failed) ==
  IF failed THEN Respond(r, CatchUpstream(r))
  ELSE IF Truthy(r.body.ruleId) /\ Truthy(r.body.rulesetId) THEN Await(r, "phasesGet")
  ELSE Await(r, "kvPut")

\* A handler that writes first and rejects afterwards a body naming one id only.
AfterKvPut_RejectsLate(r, failed) ==
  IF failed THEN Respond(r, Fail(500, "Failed to save settings"))
  ELSE IF Truthy(r.body.ruleId) # Truthy(r.body.rulesetId)
    THEN Respond(r, Fail(400, "Invalid rule ID"))
  ELSE Respond(r, Ok([kind |-> "settings", obj |-> SettingsObject(r.body)], <<>>))

AfterKvPut(r, failed) ==
  IF failed THEN Respond(r, Fail(500, "Failed to save settings"))
  ELSE Respond(r, Ok([kind |-> "settings", obj |-> SettingsObject(r.body)], <<>>))

AfterZonesList(r, failed) ==
  IF failed THEN Respond(r, CatchUpstream(r))
  ELSE Respond(r, Ok([kind |-> "zones", zones |-> <<Z1, Z2>>], <<>>))

(***************************************************************************)
(* Initial state: nothing stored, no request in flight; zone z1 holds its  *)
(* rules (the first disabled, the others enabled), zone z2 holds none.     *)
(***************************************************************************)
InitialRules == [i \in 1..NumRules |-> Rule(i, i # 1, "block")]

Init ==
  /\ kv = Null
  /\ upstream = [z \in ZoneIds |->
                   IF z = Z1 THEN [id |-> RS1, hasRules |-> TRUE, rules |-> InitialRules]
                   ELSE [id |-> RS2, hasRules |-> FALSE, rules |-> <<>>]]
  /\ req = [p \in Procs |-> Idle]
  /\ lastSave = NoBody

(***************************************************************************)
(* Actions: a request arrives; each call of a handler in flight returns or *)
(* throws; the response is delivered.                                      *)
(***************************************************************************)
Start(p) ==
  /\ req[p].pc = "idle"
  /\ \E route \in Routes : \E r \in Inputs(route) : req' = [req EXCEPT ![p] = Begin(r)]
  /\ UNCHANGED <<kv, upstream, lastSave>>

ZonesList(p) ==
  /\ req[p].pc = "zonesList"
  /\ \E throws \in BOOLEAN, detail \in ErrorDetails :
       req' = [req EXCEPT ![p] = AfterZonesList(Called(req[p], "zonesList", throws, detail), throws)]
  /\ UNCHANGED <<kv, upstream, lastSave>>

ZoneGet(p) ==
  /\ req[p].pc = "zoneGet"
  /\ \E throws \in BOOLEAN, detail \in ErrorDetails :
       LET failed == throws \/ ZoneOf(req[p]) \notin ZoneIds IN
       req' = [req EXCEPT ![p] = AfterZoneGet(Called(req[p], "zoneGet", failed, detail), failed)]
  /\ UNCHANGED <<kv, upstream, lastSave>>

PhasesGet(p) ==
  /\ req[p].pc = "phasesGet"
  /\ \E throws \in BOOLEAN, detail \in ErrorDetails :
       LET zone == ZoneOf(req[p]) IN
       req' = [req EXCEPT ![p] =
                 IF throws \/ zone \notin ZoneIds
                   THEN AfterPhasesGet(Called(req[p], "phasesGet", TRUE, detail), TRUE, NoPhase)
                 ELSE AfterPhasesGet(Called(req[p], "phasesGet", FALSE, detail), FALSE,
                                     upstream[zone])]
  /\ UNCHANGED <<kv, upstream, lastSave>>

RulesetsUpdate(p) ==
  /\ req[p].pc = "update"
  /\ \E throws \in BOOLEAN, detail \in ErrorDetails :
       LET r == req[p]
           zone == ZoneOf(r)
           payload == UpdatePayload(r)
           failed == throws \/ zone \notin ZoneIds
                     \/ ~Accepts(upstream[zone], RulesetIdOf(r), payload)
           q == [Called(r, "update", failed, detail) EXCEPT
                   !.sent = payload,
                   !.replaced = IF failed THEN NoRule
                                ELSE Find(upstream[zone].rules, RuleIdOf(r))]
           updated == PartialUpdate(upstream[zone].rules, payload)
       IN  /\ req' = [req EXCEPT ![p] = AfterUpdate(q, failed, updated)]
           /\ upstream' = IF failed THEN upstream
                          ELSE [upstream EXCEPT ![zone].rules = updated]
  /\ UNCHANGED <<kv, lastSave>>

\* A get that marks the record it reads as fired, and unmarks a marked one.
KvGet_Marking(p) ==
  /\ req[p].pc = "kvGet"
  /\ \E throws \in BOOLEAN, detail \in ErrorDetails :
       LET record == JSONParse(kv).obj
           mark == [k |-> "fired", v |-> Str(<<"yes">>)]
           marked == IF Get(record, "fired") = Undefined THEN record \o <<mark>>
                     ELSE SubSeq(record, 1, Len(record) - 1)
       IN  /\ req' = [req EXCEPT ![p] =
                        AfterKvGet(Called(req[p], "kvGet", throws, detail), throws, kv)]
           /\ kv' = IF throws \/ kv = Null THEN kv ELSE JSONStringify(marked)
  /\ UNCHANGED <<upstream, lastSave>>

\* A get that consumes the key it reads.
KvGet_Consuming(p) ==
  /\ req[p].pc = "kvGet"
  /\ \E throws \in BOOLEAN, detail \in ErrorDetails :
       /\ req' = [req EXCEPT ![p] = AfterKvGet(Called(req[p], "kvGet", throws, detail), throws, kv)]
       /\ kv' = IF throws THEN kv ELSE Null
  /\ UNCHANGED <<upstream, lastSave>>

KvGet(p) ==
  /\ req[p].pc = "kvGet"
  /\ \E throws \in BOOLEAN, detail \in ErrorDetails :
       req' = [req EXCEPT ![p] = AfterKvGet(Called(req[p], "kvGet", throws, detail), throws, kv)]
  /\ UNCHANGED <<kv, upstream, lastSave>>

\* A put that leaves the key deleted when it fails.
KvPut_DropsOnFailure(p) ==
  /\ req[p].pc = "kvPut"
  /\ \E throws \in BOOLEAN, detail \in ErrorDetails :
       LET q == [Called(req[p], "kvPut", throws, detail) EXCEPT !.prevKv = kv] IN
       /\ req' = [req EXCEPT ![p] = AfterKvPut(q, throws)]
       /\ kv' = IF throws THEN Null ELSE StoredText(kv, req[p].body)
       /\ lastSave' = IF throws THEN lastSave ELSE req[p].body
  /\ UNCHANGED upstream

KvPut(p) ==
  /\ req[p].pc = "kvPut"
  /\ \E throws \in BOOLEAN, detail \in ErrorDetails :
       LET q == [Called(req[p], "kvPut", throws, detail) EXCEPT !.prevKv = kv] IN
       /\ req' = [req EXCEPT ![p] = AfterKvPut(q, throws)]
       /\ kv' = IF throws THEN kv ELSE StoredText(kv, req[p].body)
       /\ lastSave' = IF throws THEN lastSave ELSE req[p].body
  /\ UNCHANGED upstream

Finish(p) ==
  /\ req[p].pc = "done"
  /\ req' = [req EXCEPT ![p] = Idle]
  /\ UNCHANGED <<kv, upstream, lastSave>>

(***************************************************************************)
(* The upstream account changes outside this service: a rule of z1 is      *)
(* toggled, edited or deleted, or all of them are deleted.                 *)
(***************************************************************************)
ExternalToggle ==
  /\ \E i \in 1..Len(upstream[Z1].rules) :
       upstream' = [upstream EXCEPT ![Z1].rules[i].enabled = ~@]
  /\ UNCHANGED <<kv, req, lastSave>>

ExternalEdit ==
  /\ \E i \in 1..Len(upstream[Z1].rules) : \E a \in Actions :
       /\ upstream[Z1].rules[i].id = R1
       /\ upstream[Z1].rules[i].action # a
       /\ upstream' = [upstream EXCEPT ![Z1].rules[i].action = a]
  /\ UNCHANGED <<kv, req, lastSave>>

ExternalRemove ==
  /\ Len(upstream[Z1].rules) > 1
  /\ upstream[Z1].rules[1].id = R1
  /\ upstream' = [upstream EXCEPT ![Z1].rules = Tail(@)]
  /\ UNCHANGED <<kv, req, lastSave>>

ExternalClear ==
  /\ upstream[Z1].rules # <<>>
  /\ upstream' = [upstream EXCEPT ![Z1].rules = <<>>]
  /\ UNCHANGED <<kv, req, lastSave>>

External == ExternalToggle \/ ExternalEdit \/ ExternalRemove \/ ExternalClear

Step(p) ==
  \/ Start(p)
  \/ ZonesList(p)
  \/ ZoneGet(p)
  \/ PhasesGet(p)
  \/ RulesetsUpdate(p)
  \/ KvGet(p)
  \/ KvPut(p)
  \/ Finish(p)

Next == (\E p \in Serial : Step(p)) \/ External

Spec == Init /\ [][Next]_vars

(***************************************************************************)
(* Properties.                                                             *)
(***************************************************************************)
Done(p) == req[p].pc = "done"

\* The webhook request in slot p has read and parsed the stored record.
Loaded(p) == req[p].route = "POST /api/webhook" /\ req[p].settingsStr # Null

StoredField(p, key) == Get(req[p].settings, key)

Contains(message, word) == \E i \in 1..Len(message) : message[i] = word

\* The rule named ruleId among rules, NoRule when there is none.
RuleNamed(rules, ruleId) ==
  IF \E i \in 1..Len(rules) : rules[i].id = ruleId
    THEN rules[CHOOSE i \in 1..Len(rules) : rules[i].id = ruleId]
  ELSE NoRule

\* C1 (as claimed): a webhook request whose header equals the stored secret, with
\* complete stored settings whose rule the zone's ruleset holds and no call
\* failing, is answered success:true with a message containing "enabled", and the
\* ruleset it returns shows the configured rule enabled.
C1_WebhookEnablesOnCorrectSecret ==
  \A p \in Procs :
    ( /\ Loaded(p) /\ Done(p)
      /\ req[p].threw = {}
      /\ req[p].secretHdr = StoredField(p, "secret")
      /\ Truthy(StoredField(p, "apiKey")) /\ Truthy(StoredField(p, "zoneId"))
      /\ Truthy(StoredField(p, "rulesetId")) /\ Truthy(StoredField(p, "ruleId"))
      /\ RuleNamed(upstream[StoredField(p, "zoneId")].rules, StoredField(p, "ruleId")) # NoRule )
    => /\ req[p].resp.success
       /\ Contains(req[p].resp.message, "enabled")
       /\ req[p].resp.result.kind = "ruleset"
       /\ RuleNamed(req[p].resp.result.rules, StoredField(p, "ruleId")).enabled

\* C2: a webhook request whose header differs from the stored secret is answered
\* 401 with success:false right after the record is read, whatever the rest of the
\* record holds, and has made no ruleset fetch and no ruleset update.
C2_WrongSecretDenied ==
  \A p \in Procs :
    (Loaded(p) /\ req[p].secretHdr # StoredField(p, "secret"))
    => /\ Done(p)
       /\ req[p].resp.status = 401
       /\ req[p].resp.envelope /\ ~req[p].resp.success
       /\ req[p].calls.phasesGet = 0 /\ req[p].calls.update = 0
       /\ req[p].sent = <<>>

C2_Witness ==
  \E p \in Procs :
    /\ Loaded(p) /\ Done(p)
    /\ req[p].secretHdr = S2 /\ StoredField(p, "secret") = S1
    /\ StoredField(p, "rulesetId") = RS1 /\ StoredField(p, "ruleId") = R1
    /\ req[p].resp.status = 401

\* The request in slot p is on a privileged route and carries no credential header.
NoCredential(p) ==
  \/ /\ req[p].route \in {"GET /api/zones", "GET /api/waf/rules", "POST /api/waf/rules/enable"}
     /\ req[p].apiKeyHdr = Undefined
  \/ /\ req[p].route = "POST /api/webhook"
     /\ req[p].secretHdr = Undefined

Rejected(p, status) ==
  /\ Done(p)
  /\ req[p].resp.status = status
  /\ req[p].resp.envelope /\ ~req[p].resp.success
  /\ req[p].calls = NoCalls

C4_SaveWithoutRuleRoundTrips ==
  /\ \A p \in Procs :
       ( /\ req[p].route = "POST /api/settings" /\ Done(p)
         /\ req[p].body.ok /\ req[p].threw = {}
         /\ Truthy(req[p].body.apiKey) /\ Truthy(req[p].body.zoneId)
         /\ ~Truthy(req[p].body.ruleId) /\ ~Truthy(req[p].body.rulesetId) )
       => req[p].resp.success /\ req[p].resp.status = 200
  /\ \A p \in Procs :
       ( /\ req[p].route = "GET /api/settings" /\ Done(p)
         /\ req[p].threw = {}
         /\ lastSave.ok
         /\ ~Truthy(lastSave.ruleId) /\ ~Truthy(lastSave.rulesetId) )
       => /\ req[p].resp.success /\ req[p].resp.status = 200
          /\ req[p].resp.result.kind = "settings"
          /\ Get(req[p].resp.result.obj, "apiKey") = lastSave.apiKey
          /\ Get(req[p].resp.result.obj, "zoneId") = lastSave.zoneId
          /\ Get(req[p].resp.result.obj, "rulesetId") = Empty
          /\ Get(req[p].resp.result.obj, "ruleId") = Empty

C4_Witness ==
  \E p \in Procs :
    /\ req[p].route = "GET /api/settings" /\ Done(p)
    /\ lastSave.ok
    /\ lastSave.ruleId = Undefined /\ lastSave.rulesetId = Undefined
    /\ req[p].resp.success
    /\ req[p].resp.result.kind = "settings"
    /\ Get(req[p].resp.result.obj, "zoneId") = Z1

\* C5: a save with apiKey, zoneId, rulesetId and ruleId, which fetched a ruleset
\* holding no rule of that id (one without rules included), is answered 400 with
\* success:false and goes no further.
C5_UnknownRuleIs400 ==
  \A p \in Procs :
    ( /\ req[p].route = "POST /api/settings"
      /\ req[p].body.ok
      /\ Truthy(req[p].body.apiKey) /\ Truthy(req[p].body.zoneId)
      /\ Truthy(req[p].body.rulesetId) /\ Truthy(req[p].body.ruleId)
      /\ req[p].calls.phasesGet = 1 /\ "phasesGet" \notin req[p].threw
      /\ RuleNamed(req[p].phase.rules, req[p].body.ruleId) = NoRule )
    => /\ Done(p)
       /\ req[p].resp.status = 400
       /\ req[p].resp.envelope /\ ~req[p].resp.success
       /\ req[p].calls.kvPut = 0

C5_Witness ==
  \E p \in Procs :
    /\ req[p].route = "POST /api/settings" /\ Done(p)
    /\ req[p].body.ruleId = RX /\ req[p].body.rulesetId = RS1
    /\ req[p].calls.phasesGet = 1 /\ "phasesGet" \notin req[p].threw
    /\ Len(req[p].phase.rules) = NumRules
    /\ req[p].resp.status = 400

\* Slot p's request has just had its ruleset update accepted.
Updated(p) ==
  /\ req[p].pc = "update"
  /\ req'[p].pc = "done"
  /\ req'[p].resp.success

\* C6: an accepted update of POST /api/waf/rules/enable leaves the rule's flag at the
\* requested value (true when enabling a disabled rule); and when the rule already
\* has that flag and is as the handler read it, the update leaves the upstream as
\* it was: applying the request again changes nothing.
C6_EnableSetsFlagIdempotently ==
  [][\A p \in Procs :
       (Updated(p) /\ req[p].route = "POST /api/waf/rules/enable") =>
         LET zone == req[p].body.zoneId
             ruleId == req[p].body.ruleId
             read == RuleNamed(req[p].phase.rules, ruleId)
         IN  /\ RuleNamed(upstream'[zone].rules, ruleId) # NoRule
             /\ RuleNamed(upstream'[zone].rules, ruleId).enabled = req[p].body.enabled
             /\ ( /\ RuleNamed(upstream[zone].rules, ruleId) = read
                  /\ read.enabled = req[p].body.enabled )
                => upstream' = upstream]_vars

C6_Witness ==
  \E p \in Procs :
    /\ req[p].route = "POST /api/waf/rules/enable" /\ Done(p)
    /\ req[p].resp.success
    /\ req[p].body.enabled
    /\ RuleNamed(req[p].phase.rules, req[p].body.ruleId).enabled
    /\ req[p].resp.result.kind = "ruleset"
    /\ req[p].resp.result.rules = req[p].phase.rules
    /\ upstream[Z1].rules = req[p].phase.rules

NoRulesFound ==
  [status |-> 404, envelope |-> TRUE, success |-> FALSE, error |-> "No WAF rules found",
   message |-> <<>>, result |-> [kind |-> "null"]]

\* C7: GET /api/waf/rules with credential and zoneId, its fetch returning, gives
\* one and the same response, 404 "No WAF rules found", when the ruleset holds zero
\* rules and when it holds no rule collection at all.
C7_EmptyAndAbsentAlike ==
  \A p \in Procs :
    ( /\ req[p].route = "GET /api/waf/rules"
      /\ req[p].calls.phasesGet = 1 /\ req[p].threw = {}
      /\ (~req[p].phase.hasRules \/ req[p].phase.rules = <<>>) )
    => Done(p) /\ req[p].resp = NoRulesFound

C7_Witness ==
  \E p \in Procs :
    /\ req[p].route = "GET /api/waf/rules" /\ Done(p)
    /\ req[p].calls.phasesGet = 1 /\ req[p].threw = {}
    /\ req[p].phase.hasRules /\ req[p].phase.rules = <<>>
    /\ req[p].resp.status = 404

\* C8: an accepted update, of the enable handler or of the webhook, submitted
\* exactly one rule, the one of the requested id, and every other rule of the
\* ruleset is after the update as it was before it.
C8_OnlySubmittedRuleChanges ==
  [][\A p \in Procs :
       Updated(p) =>
         LET zone == ZoneOf(req[p])
             ruleId == RuleIdOf(req[p])
         IN  /\ Len(req'[p].sent) = 1
             /\ req'[p].sent[1].id = ruleId
             /\ Len(upstream'[zone].rules) = Len(upstream[zone].rules)
             /\ \A i \in 1..Len(upstream[zone].rules) :
                  upstream[zone].rules[i].id # ruleId
                  => upstream'[zone].rules[i] = upstream[zone].rules[i]
             /\ \A z \in ZoneIds \ {zone} : upstream'[z] = upstream[z]]_vars

C8_Witness ==
  \E p \in Procs :
    /\ Done(p) /\ req[p].resp.success
    /\ req[p].calls.update = 1
    /\ Len(req[p].sent) = 1 /\ req[p].sent[1].id = R1
    /\ req[p].sent[1].enabled # RuleNamed(req[p].phase.rules, R1).enabled
    /\ Len(upstream[Z1].rules) = NumRules
    /\ upstream[Z1].rules[NumRules].enabled # req[p].phase.rules[NumRules].enabled

\* C9: no step of a POST /api/webhook request submits a rule that is not enabled,
\* and none takes away a rule or clears the flag of a rule that was enabled.
C9_WebhookNeverDisables ==
  [][\A p \in Procs :
       (req'[p].route = "POST /api/webhook" /\ req'[p] # req[p]) =>
         /\ \A j \in 1..Len(req'[p].sent) : req'[p].sent[j].enabled
         /\ \A z \in ZoneIds :
              /\ Len(upstream'[z].rules) = Len(upstream[z].rules)
              /\ \A i \in 1..Len(upstream[z].rules) :
                   upstream[z].rules[i].enabled => upstream'[z].rules[i].enabled]_vars

C9_Witness ==
  \E p \in Procs :
    /\ Loaded(p) /\ Done(p)
    /\ req[p].body.ok /\ req[p].apiKeyHdr = K1
    /\ req[p].secretHdr = StoredField(p, "secret")
    /\ StoredField(p, "ruleId") = R1
    /\ RuleNamed(upstream[Z1].rules, R1).enabled

\* The members a record written for body holds, in the order they are written.
Written(body) ==
  << [k |-> "apiKey", v |-> body.apiKey], [k |-> "zoneId", v |-> body.zoneId] >>
  \o (IF body.secret = Undefined THEN <<>> ELSE << [k |-> "secret", v |-> body.secret] >>)
  \o << [k |-> "rulesetId", v |-> IF Truthy(body.rulesetId) THEN body.rulesetId ELSE Empty],
        [k |-> "ruleId", v |-> IF Truthy(body.ruleId) THEN body.ruleId ELSE Empty] >>

\* C10: the stored record is the one the last successful save wrote, made of that
\* request's fields alone: it holds the request's apiKey, zoneId, rulesetId and
\* ruleId (empty when not given) and the request's secret, and no secret when the
\* request gave none, whatever the record before held.
C10_SaveOverwrites ==
  IF lastSave.ok
    THEN /\ kv.t = "string"
         /\ JSONParse(kv).ok
         /\ JSONParse(kv).obj = Written(lastSave)
  ELSE kv = Null

C10_Witness ==
  \E p \in Procs :
    /\ req[p].route = "POST /api/settings" /\ Done(p)
    /\ req[p].resp.success
    /\ req[p].prevKv # Null
    /\ Get(JSONParse(req[p].prevKv).obj, "secret") = S1
    /\ Get(JSONParse(req[p].prevKv).obj, "ruleId") = R1
    /\ req[p].body.secret = Undefined /\ req[p].body.ruleId = Undefined
    /\ lastSave = req[p].body
    /\ Get(JSONParse(kv).obj, "secret") = Undefined
    /\ Get(JSONParse(kv).obj, "ruleId") = Empty


\* What a caller reads from a JSON response carrying obj: c.json serialises it.
Received(obj) == JSONParse(JSONStringify(obj)).obj

\* The value the normalized record is said to hold for an optional field.
Coerced(v) == IF Truthy(v) THEN v ELSE Empty

\* C11 (as claimed): after a successful save, while its record is the stored one,
\* the returned result and the stored record both hold rulesetId, ruleId and
\* secret, each the empty string when the request left it out, and the returned
\* result equals the stored record.
C11_OptionalFieldsCoerced ==
  \A p \in Procs :
    ( /\ req[p].route = "POST /api/settings" /\ Done(p)
      /\ req[p].resp.success
      /\ lastSave = req[p].body )
    => LET returned == Received(req[p].resp.result.obj)
           stored == JSONParse(kv).obj
       IN  /\ returned = stored
           /\ Get(stored, "rulesetId") = Coerced(req[p].body.rulesetId)
           /\ Get(stored, "ruleId") = Coerced(req[p].body.ruleId)
           /\ Get(stored, "secret") = Coerced(req[p].body.secret)


\* C12: GET /api/settings, its store read returning, answers 200 with success:true:
\* with result null while no save has succeeded, and otherwise with the record the
\* last successful save wrote; a missing record is never answered as an error.
C12_GetReturnsLastSaveOrNull ==
  \A p \in Procs :
    ( /\ req[p].route = "GET /api/settings" /\ Done(p)
      /\ req[p].threw = {} )
    => /\ req[p].resp.status = 200
       /\ req[p].resp.success /\ req[p].resp.error = ""
       /\ IF lastSave.ok
            THEN /\ req[p].resp.result.kind = "settings"
                 /\ Received(req[p].resp.result.obj) = Written(lastSave)
          ELSE req[p].resp.result.kind = "null"

C12_Witness ==
  \E p \in Procs :
    /\ req[p].route = "GET /api/settings" /\ Done(p)
    /\ req[p].calls.kvGet = 1 /\ req[p].threw = {}
    /\ ~lastSave.ok /\ kv = Null
    /\ req[p].resp.status = 200
    /\ req[p].resp.result.kind = "null"


FailureStatuses == {400, 401, 404, 500}

\* The response in slot p is the uniform envelope, as a failure or as a success.
UniformEnvelope(p) ==
  IF req[p].resp.status = 200
    THEN req[p].resp.envelope /\ req[p].resp.success /\ req[p].resp.error = ""
  ELSE /\ req[p].resp.envelope /\ ~req[p].resp.success
       /\ req[p].resp.error # ""
       /\ req[p].resp.status \in FailureStatuses

\* C13 (as claimed): every response of the six enveloped handlers is either
\* success:true with status 200 and no error, or the envelope with success:false,
\* a non-empty error and a status among 400, 401, 404 and 500, a request whose
\* body cannot be parsed included.
C13_UniformFailureEnvelope ==
  \A p \in Procs :
    (Done(p) /\ req[p].route # "GET /api/webhook") => UniformEnvelope(p)

\* The same for every request but an enable request with an unparseable body.
C13_EnvelopeWhenBodyParses ==
  \A p \in Procs :
    ( /\ Done(p) /\ req[p].route # "GET /api/webhook"
      /\ ~(req[p].route = "POST /api/waf/rules/enable" /\ ~req[p].body.ok) )
    => UniformEnvelope(p)


(***************************************************************************)
(* Two POST /api/settings requests in flight at once: each handler runs to *)
(* its next await, and the calls of the two interleave in any order.       *)
(***************************************************************************)
\* The saves that get to their first await: a request rejected before it runs in
\* one piece and is left to Spec. The rulesetId is a string or absent here.
SaveInputs ==
  {r \in Inputs("POST /api/settings") :
     /\ Begin(r).pc # "done"
     /\ r.body.rulesetId \in {Undefined, RS1}}

StartSave(p) ==
  /\ req[p].pc = "idle"
  /\ \E r \in SaveInputs : req' = [req EXCEPT ![p] = Begin(r)]
  /\ UNCHANGED <<kv, upstream, lastSave>>

NextSaves ==
  \E p \in Procs :
    \/ StartSave(p)
    \/ ZoneGet(p)
    \/ PhasesGet(p)
    \/ KvPut(p)
    \/ Finish(p)

SpecSaves == Init /\ [][NextSaves]_vars

Saved(p) ==
  /\ req[p].route = "POST /api/settings" /\ Done(p)
  /\ req[p].resp.success

\* C14: when two POST /api/settings requests have both succeeded, the stored
\* record is, field for field, the record of one of them, the one whose put came
\* last: no interleaving of the two handlers leaves a record mixing their fields.
C14_LastPutWins ==
  (Saved("p1") /\ Saved("p2"))
  => \E p \in Procs :
       /\ lastSave = req[p].body
       /\ JSONParse(kv).ok
       /\ JSONParse(kv).obj = Written(req[p].body)

\* Two saves answered and not yet delivered, the second put over the first's
\* record: it is stored whole although the two differ in every optional field.
C14_Witness ==
  /\ Saved("p1") /\ Saved("p2")
  /\ req["p1"].prevKv = Null
  /\ req["p2"].prevKv = JSONStringify(SettingsObject(req["p1"].body))
  /\ req["p1"].body.ruleId = R1 /\ req["p1"].body.rulesetId = RS1
  /\ req["p1"].body.secret = S1
  /\ req["p2"].body.ruleId = Undefined /\ req["p2"].body.rulesetId = Undefined
  /\ req["p2"].body.secret = Undefined
  /\ JSONParse(kv).obj = Written(req["p2"].body)


\* C15: the update of the enable and webhook flows is unguarded: whenever it is
\* accepted, the rule upstream becomes the copy the handler fetched, with the
\* flag it asked for, whatever the rule had become upstream since the fetch; so
\* an external modification made between the fetch and the update is lost.
C15_UpdateWritesReadCopy ==
  [][\A p \in Procs :
       Updated(p) =>
         LET ruleId == RuleIdOf(req[p])
             read == RuleNamed(req[p].phase.rules, ruleId)
             written == RuleNamed(upstream'[ZoneOf(req[p])].rules, ruleId)
         IN  /\ read # NoRule
             /\ written.id = read.id
             /\ written.action = read.action
             /\ written.enabled =
                  (IF req[p].route = "POST /api/webhook" THEN TRUE
                   ELSE req[p].body.enabled)]_vars

\* An enable request answered success whose update replaced a rule that had been
\* edited upstream after the fetch: the edit is gone.
C15_Witness ==
  \E p \in Procs :
    /\ req[p].route = "POST /api/waf/rules/enable" /\ Done(p)
    /\ req[p].resp.success
    /\ req[p].replaced # NoRule
    /\ req[p].replaced.action # RuleNamed(req[p].phase.rules, R1).action
    /\ req[p].replaced.enabled # RuleNamed(req[p].phase.rules, R1).enabled
    /\ req[p].body.ruleId = R1
    /\ RuleNamed(upstream[Z1].rules, R1).action # req[p].replaced.action


\* The failure the webhook's checks, taken in the order claimed, give a request
\* whose calls all returned; NoResp when all six pass.
FirstFailure(p) ==
  LET r == req[p]
      stored(key) == Get(r.settings, key)
  IN  IF ~Truthy(r.secretHdr) THEN Fail(401, "Access denied")
      ELSE IF r.settingsStr = Null THEN Fail(404, "No settings found")
      ELSE IF r.secretHdr # stored("secret") THEN Fail(401, "Access denied")
      ELSE IF ~Truthy(stored("apiKey")) \/ ~Truthy(stored("zoneId"))
              \/ ~Truthy(stored("rulesetId")) \/ ~Truthy(stored("ruleId"))
        THEN Fail(400, "Incomplete settings found")
      ELSE IF r.phase.rules = <<>> THEN Fail(404, "No WAF rules found")
      ELSE IF RuleNamed(r.phase.rules, stored("ruleId")) = NoRule
        THEN Fail(404, "Rule not found")
      ELSE NoResp

\* C16 (as claimed): a POST /api/webhook request whose calls all returned is
\* answered with the failure of the first failing check in the order header
\* present, settings present, header equals stored secret, settings complete,
\* ruleset non-empty, rule exists; it issues the update exactly when all six pass.
C16_WebhookCheckOrder ==
  \A p \in Procs :
    ( /\ req[p].route = "POST /api/webhook" /\ Done(p)
      /\ req[p].threw = {} )
    => IF FirstFailure(p) = NoResp
         THEN req[p].calls.update = 1 /\ req[p].resp.success
       ELSE req[p].calls.update = 0 /\ req[p].resp = FirstFailure(p)


\* C17: every step that changes the stored record is the put of a POST
\* /api/settings request that is then answered success; no step of a request on
\* another route, and none of a failing save, changes it.
C17_OnlySaveChangesRecord ==
  [][kv' # kv =>
       \E p \in Procs :
         /\ req[p].route = "POST /api/settings"
         /\ req[p].pc = "kvPut" /\ req'[p].pc = "done"
         /\ req'[p].resp.success /\ req'[p].resp.status = 200]_vars

\* A rule toggled through the enable route and answered success, or a webhook
\* answered after reading the record: the record is as the last save wrote it.
C17_Witness ==
  \E p \in Procs :
    /\ Done(p)
    /\ \/ req[p].route = "POST /api/waf/rules/enable" /\ req[p].resp.success
       \/ req[p].route = "POST /api/webhook" /\ req[p].calls.kvGet = 1
    /\ lastSave.ok
    /\ lastSave.ruleId = R1
    /\ kv = JSONStringify(SettingsObject(lastSave))

\* C18: once a POST /api/settings has succeeded the record is present and
\* readable in every later state; no GET /api/settings is answered null and no
\* POST /api/webhook is answered "No settings found" from then on.
C18_RecordNeverDeleted ==
  lastSave.ok =>
    /\ kv # Null /\ kv.t = "string"
    /\ JSONParse(kv).ok
    /\ \A p \in Procs :
         Done(p) =>
           /\ req[p].route = "GET /api/settings" => req[p].resp.result.kind # "null"
           /\ req[p].route = "POST /api/webhook" => req[p].resp.error # "No settings found"

\* After a save, a webhook request gets past the presence check, or a GET is
\* answered the record.
C18_Witness ==
  \E p \in Procs :
    /\ Done(p) /\ lastSave.ok
    /\ req[p].calls.kvGet = 1 /\ req[p].threw = {}
    /\ \/ req[p].route = "POST /api/webhook" /\ req[p].resp.status = 401
       \/ req[p].route = "GET /api/settings" /\ req[p].resp.result.kind = "settings"


UpstreamCalls == {"zonesList", "zoneGet", "phasesGet", "update"}

\* C19: a request makes each kind of upstream call (zone list, zone get, ruleset
\* fetch, ruleset update) and the store write at most once; once an upstream call
\* has failed the request is answered a failure, having made no call after it.
C19_NoRetries ==
  \A p \in Procs :
    /\ \A call \in UpstreamCalls \cup {"kvPut"} : req[p].calls[call] <= 1
    /\ (req[p].threw \cap UpstreamCalls # {}) =>
         /\ Done(p)
         /\ ~req[p].resp.success /\ req[p].resp.status # 200
         /\ \E call \in UpstreamCalls : req[p].threw = {call}

\* An enable request whose fetch returned and whose update failed: one call of
\* each, answered 500; or a save whose zone lookup failed, answered 400 after it.
C19_Witness ==
  \E p \in Procs :
    /\ Done(p)
    /\ \/ /\ req[p].route = "POST /api/waf/rules/enable"
          /\ req[p].threw = {"update"}
          /\ req[p].calls.phasesGet = 1 /\ req[p].calls.update = 1
          /\ req[p].resp.status = 500
       \/ /\ req[p].route = "POST /api/settings"
          /\ req[p].threw = {"zoneGet"}
          /\ req[p].calls.zoneGet = 1 /\ req[p].calls.phasesGet = 0
          /\ req[p].calls.kvPut = 0
          /\ req[p].resp.status = 400


\* The body gives exactly one of ruleId and rulesetId.
OneIdOnly(body) == Truthy(body.ruleId) # Truthy(body.rulesetId)

\* C20: a POST /api/settings request with apiKey and zoneId that the upstream
\* accepts and exactly one of ruleId and rulesetId non-empty, whose calls all
\* returned, is answered success without having fetched the ruleset, and the
\* record stored holds the supplied id as given, the other one empty.
C20_OneIdSkipsValidation ==
  \A p \in Procs :
    ( /\ req[p].route = "POST /api/settings" /\ Done(p)
      /\ req[p].body.ok /\ req[p].threw = {}
      /\ Truthy(req[p].body.apiKey) /\ Truthy(req[p].body.zoneId)
      /\ OneIdOnly(req[p].body) )
    => /\ req[p].resp.status = 200 /\ req[p].resp.success
       /\ req[p].calls.zoneGet = 1
       /\ req[p].calls.phasesGet = 0
       /\ req[p].calls.kvPut = 1
       /\ Get(JSONParse(kv).obj, "ruleId") = Coerced(req[p].body.ruleId)
       /\ Get(JSONParse(kv).obj, "rulesetId") = Coerced(req[p].body.rulesetId)

\* A save naming a rule that the upstream does not have, and no ruleset: stored.
C20_Witness ==
  \E p \in Procs :
    /\ req[p].route = "POST /api/settings" /\ Done(p)
    /\ req[p].resp.success
    /\ req[p].body.ruleId = RX /\ ~Truthy(req[p].body.rulesetId)
    /\ RuleNamed(upstream[Z1].rules, RX) = NoRule
    /\ req[p].calls.phasesGet = 0
    /\ Get(JSONParse(kv).obj, "ruleId") = RX


\* The enable request in slot p carries the credential and the three ids.
AllPresent(p) ==
  /\ Truthy(req[p].apiKeyHdr) /\ Truthy(req[p].body.zoneId)
  /\ Truthy(req[p].body.ruleId) /\ Truthy(req[p].body.rulesetId)

C22_SaveFailureStatuses ==
  \A p \in Procs :
    (req[p].route = "POST /api/settings" /\ Done(p)) =>
      LET body == req[p].body
          notFound == /\ req[p].calls.phasesGet = 1 /\ "phasesGet" \notin req[p].threw
                      /\ RuleNamed(req[p].phase.rules, body.ruleId) = NoRule
      IN  /\ ( \/ ~Truthy(body.apiKey) \/ ~Truthy(body.zoneId)
               \/ "zoneGet" \in req[p].threw
               \/ notFound )
             => req[p].resp.status = 400 /\ ~req[p].resp.success
          /\ req[p].resp.status = 500 => "kvPut" \in req[p].threw


\* The error strings written in the handlers.
ErrorLiterals ==
  {"API key is required", "API key and Zone ID are required", "No WAF rules found",
   "Rule not found", "Missing required parameters", "Failed to fetch zones",
   "Failed to fetch WAF rules", "Failed to update WAF rules",
   "Failed to fetch settings", "Invalid rule ID", "Invalid API key or zone ID",
   "Failed to save settings", "Access denied", "No settings found",
   "Incomplete settings found", "Failed to process webhook request"}

\* The error string a route answers when the given call throws.
ErrorOf(route, call) ==
  CASE route = "GET /api/zones" -> "Failed to fetch zones"
    [] route = "GET /api/waf/rules" -> "Failed to fetch WAF rules"
    [] route = "POST /api/waf/rules/enable" -> "Failed to update WAF rules"
    [] route = "GET /api/settings" -> "Failed to fetch settings"
    [] route = "POST /api/settings" ->
         IF call = "kvPut" THEN "Failed to save settings" ELSE "Invalid API key or zone ID"
    [] OTHER -> "Failed to process webhook request"

\* C23: the error string of every failure response is one of the literals written
\* in the handlers, and after a call threw it is the literal of that route and
\* call whatever the error thrown carried: no detail of the error is in the
\* response, so executions differing only in that detail answer alike.
C23_FixedErrorStrings ==
  \A p \in Procs :
    (Done(p) /\ ~req[p].resp.success /\ req[p].route # "GET /api/webhook") =>
      /\ req[p].resp.envelope => req[p].resp.error \in ErrorLiterals
      /\ ~req[p].resp.envelope => req[p].resp.message = <<"Internal Server Error">>
      /\ req[p].resp.error \notin ErrorDetails
      /\ \A call \in req[p].threw :
           /\ req[p].resp.envelope
           /\ req[p].resp.error = ErrorOf(req[p].route, call)
           /\ req[p].resp.message = <<>>

\* A zone listing whose upstream call threw, or a webhook whose store read threw.
C23_Witness ==
  \E p \in Procs :
    /\ Done(p)
    /\ \/ /\ req[p].route = "GET /api/zones" /\ req[p].threw = {"zonesList"}
          /\ req[p].resp.error = "Failed to fetch zones"
       \/ /\ req[p].route = "POST /api/webhook" /\ req[p].threw = {"kvGet"}
          /\ req[p].resp.error = "Failed to process webhook request"


(***************************************************************************)
(* The webhook invoked twice in a row. Slot p1 serves requests one at a    *)
(* time, as in Spec, until a POST /api/webhook of it has been answered;    *)
(* the same request is then made again in slot p2, while nothing else      *)
(* acts: no other request and no change of the upstream from outside.      *)
(***************************************************************************)
FirstRun == req["p1"].route = "POST /api/webhook" /\ req["p1"].pc = "done"

Replay(p) ==
  /\ req[p].pc = "idle"
  /\ req' = [req EXCEPT ![p] =
               Begin([Idle EXCEPT !.route = "POST /api/webhook",
                                  !.secretHdr = req["p1"].secretHdr,
                                  !.apiKeyHdr = req["p1"].apiKeyHdr,
                                  !.body = req["p1"].body])]
  /\ UNCHANGED <<kv, upstream, lastSave>>

NextTwice ==
  \/ /\ req["p2"].pc = "idle"
     /\ Step("p1")
  \/ /\ req["p2"].pc = "idle" /\ ~FirstRun
     /\ External
  \/ /\ FirstRun
     /\ \/ Replay("p2")
        \/ KvGet("p2")
        \/ PhasesGet("p2")
        \/ RulesetsUpdate("p2")
        \/ Finish("p2")

SpecTwice == Init /\ [][NextTwice]_vars

\* C24: after a POST /api/webhook whose calls all returned, the same request run
\* again, with the settings as they are and nothing else acting on the upstream,
\* changes neither the upstream ruleset nor the Settings record in any of its
\* steps: the state after two runs is the state after one.
C24_WebhookIdempotent ==
  [][( /\ FirstRun /\ req["p1"].threw = {}
       /\ (req["p2"].pc # "idle" \/ req'["p2"].pc # "idle") )
     => (upstream' = upstream /\ kv' = kv)]_vars

\* Over a complete record, the webhook bearing the stored secret answered twice.
C24_Witness ==
  /\ FirstRun /\ req["p1"].threw = {}
  /\ req["p2"].route = "POST /api/webhook" /\ req["p2"].pc = "done"
  /\ req["p2"].threw = {}
  /\ req["p1"].calls.kvGet = 1 /\ req["p2"].calls.kvGet = 1
  /\ req["p2"].secretHdr = S1
  /\ kv = JSONStringify(SettingsObject(lastSave))
  /\ lastSave.secret = S1
  /\ lastSave.ruleId = R1 /\ lastSave.rulesetId = RS1


\* C25: no step of a POST /api/settings request that is not answered success
\* changes the stored record, present or absent; and unless it is the put itself
\* that failed, the request has called the store's put not once.
C25_FailedSaveWritesNothing ==
  [][\A p \in Procs :
       ( /\ req'[p] # req[p]
         /\ req'[p].route = "POST /api/settings"
         /\ ~(req'[p].pc = "done" /\ req'[p].resp.success) )
       => /\ kv' = kv
          /\ (req'[p].pc = "done" /\ "kvPut" \notin req'[p].threw)
             => req'[p].calls.kvPut = 0]_vars

\* Over a stored record, a save rejected for an unknown rule id, or for a failed
\* zone lookup: the record is the one the last successful save wrote.
C25_Witness ==
  \E p \in Procs :
    /\ req[p].route = "POST /api/settings" /\ Done(p)
    /\ ~req[p].resp.success /\ req[p].resp.status = 400
    /\ req[p].calls.zoneGet = 1 /\ req[p].calls.kvPut = 0
    /\ lastSave.ok /\ lastSave # req[p].body
    /\ kv = JSONStringify(SettingsObject(lastSave))


\* C26 (as claimed): whenever a record is stored, its apiKey and zoneId are
\* non-empty strings and its rulesetId and ruleId are strings, possibly empty;
\* and when both of these are non-empty, the save that wrote the record, while
\* its answer is not yet delivered, has fetched a ruleset holding a rule of that id.
C26_StoredRecordWellFormed ==
  kv # Null =>
    LET record == JSONParse(kv).obj
        field(key) == Get(record, key)
        both == field("rulesetId") # Empty /\ field("ruleId") # Empty
    IN  /\ JSONParse(kv).ok
        /\ field("apiKey").t = "string" /\ field("apiKey") # Empty
        /\ field("zoneId").t = "string" /\ field("zoneId") # Empty
        /\ field("rulesetId").t = "string"
        /\ field("ruleId").t = "string"
        /\ \A p \in Procs :
             ( /\ req[p].route = "POST /api/settings" /\ Done(p)
               /\ req[p].resp.success /\ lastSave = req[p].body
               /\ both )
             => /\ req[p].calls.phasesGet = 1
                /\ RuleNamed(req[p].phase.rules, field("ruleId")) # NoRule

=============================================================================
